---- MODULE Spec2Model ----
(***************************************************************************)
(* gartal: exact-length reads from a Node readable stream as Promises      *)
(* (src/src/index.ts).                                                     *)
(*                                                                         *)
(* Part 1 models readBytes against a pull-based readable stream: the       *)
(* stream's internal buffer, its end flag, its 'error' and 'readable'      *)
(* listener lists, and one promise per readBytes call.  The stream itself  *)
(* is Node's stream.Readable, an external collaborator; it is modelled by  *)
(* the contract the code relies on:                                        *)
(*   read(n)  n = 0: null;  n <= buffered: the first n bytes;              *)
(*            n > buffered: everything left when the stream has ended and  *)
(*            something is left, null otherwise;                           *)
(*   'readable' is emitted after data arrives and after the stream ends;   *)
(*   'error' is emitted to the attached 'error' listeners.                 *)
(***************************************************************************)
EXTENDS Integers, Sequences, FiniteSets, TLC

VARIABLES
    buffer,       \* bytes held by the stream's internal buffer
    ended,        \* the stream has seen its end (push(null))
    fed,          \* history: every byte the stream was ever fed, in order
    readableDue,  \* a 'readable' notification is scheduled and not yet emitted
    errorL,       \* 'error' listeners, by owning call, in registration order
    readableL,    \* once('readable') listeners, by owning call
    calls,        \* one promise per readBytes call
    pulls,        \* history: how many times each call ran checkDone
    errCount,     \* history: how many 'error' events the stream emitted
    lastErr,      \* history: the value of the last 'error' event
    dec           \* a typed decoder call: its input, its arguments, its outcome

streamVars == <<buffer, ended, fed, readableDue, errorL, readableL, calls, pulls,
                errCount, lastErr>>

vars == <<streamVars, dec>>

\* ----------------------------------------------------------------- bounds
MaxLen == 3      \* bytes the stream is fed in one run
MaxChunk == 2    \* bytes in one arriving chunk
MaxSize == 2     \* largest size a call requests
MaxCalls == 2    \* readBytes calls in one run
MaxErrors == 1   \* 'error' events in one run

Bytes == {0, 255}
CallIds == 1..MaxCalls
Chunks == UNION {[1..n -> Bytes] : n \in 1..MaxChunk}

\* ------------------------------------------------------------------ values
NoBlock == [null |-> TRUE, bytes |-> <<>>]
Block(bs) == [null |-> FALSE, bytes |-> bs]

NoErr == [kind |-> "none", requested |-> 0, actual |-> 0, cause |-> "none"]
\* new Error(`Attempted to read ${size} bytes but only ${buf.length} bytes are available`)
InsufficientData(size, len) ==
    [kind |-> "InsufficientData", requested |-> size, actual |-> len, cause |-> "none"]
\* the values a stream may pass to its 'error' listeners
StreamErrors ==
    {[kind |-> "StreamError", requested |-> 0, actual |-> 0, cause |-> c] :
        c \in {"EIO", "ECORRUPT"}}

\* A number too wide for one machine integer of the checker is kept as two
\* 24-bit limbs and a sign: its magnitude is hi * 2^24 + lo.
Limb == 256 * 256 * 256
Num(neg, hi, lo) == [neg |-> neg, hi |-> hi, lo |-> lo]
Zero == Num(FALSE, 0, 0)

\* The outcome of a typed decoder: the state of its promise, the value or the
\* error it settled with, the decode path taken (via), how many bytes it
\* asked readBytes for (pulled) and what it left in the stream (rest).
NoDecErr == [kind |-> "none", message |-> ""]
NoOut == [state |-> "none", num |-> Zero, text |-> <<>>, err |-> NoDecErr,
          via |-> "none", pulled |-> 0, rest |-> <<>>]

\* No decoder call in progress.
NoDec == [op |-> "none", input |-> <<>>, arg |-> 0, out |-> NoOut]

IdleCall == [state |-> "idle", size |-> 0, block |-> NoBlock, err |-> NoErr]

Take(s, n) == SubSeq(s, 1, n)
Drop(s, n) == SubSeq(s, n + 1, Len(s))

\* ------------------------------------------------------------------ stream
\* stream.read(n): what is returned and what stays buffered.  read(0) never
\* returns data; a pull for more than is buffered returns null while the
\* stream is open, and whatever is left (null when nothing is) once it ended.
StreamRead(buf, isEnded, n) ==
    IF n = 0 THEN [data |-> NoBlock, rest |-> buf]
    ELSE IF n <= Len(buf) THEN [data |-> Block(Take(buf, n)), rest |-> Drop(buf, n)]
    ELSE IF isEnded /\ Len(buf) > 0 THEN [data |-> Block(buf), rest |-> <<>>]
    ELSE [data |-> NoBlock, rest |-> buf]

\* stream.removeListener(ev, fn): drops the most recently added instance.
RECURSIVE RemoveLast(_, _)
RemoveLast(L, i) ==
    IF L = <<>> THEN <<>>
    ELSE IF L[Len(L)] = i THEN SubSeq(L, 1, Len(L) - 1)
    ELSE Append(RemoveLast(SubSeq(L, 1, Len(L) - 1), i), L[Len(L)])

\* ------------------------------------------------------------------ promise
\* resolve / reject act only on a pending promise.
Resolve(c, buf) ==
    IF c.state = "pending" THEN [c EXCEPT !.state = "resolved", !.block = buf] ELSE c

Reject(c, e) ==
    IF c.state = "pending" THEN [c EXCEPT !.state = "rejected", !.err = e] ELSE c

\* ---------------------------------------------------------------- readBytes
\* The part of the state a callback works on.
Here == [buffer |-> buffer, errorL |-> errorL, readableL |-> readableL,
         calls |-> calls, pulls |-> pulls]

\* Faulty variant: the retry listener is attached with on(), so it stays after it fired.
OnFired(L) == L

\* stream.once('readable', checkDone): a listener that fires is detached first.
OnceFired(L) == <<>>

\* Faulty variant: no length check, whatever the pull yields is resolved.
CheckDoneNoLengthCheck(i, s) ==
    LET r == StreamRead(s.buffer, ended, s.calls[i].size)
        p == [s.pulls EXCEPT ![i] = @ + 1]
    IN  IF ~r.data.null
        THEN [s EXCEPT
                !.buffer = r.rest,
                !.pulls = p,
                !.errorL = RemoveLast(@, i),
                !.calls[i] = Resolve(@, r.data)]
        ELSE [s EXCEPT
                !.pulls = p,
                !.readableL = Append(@, i)]

\* Faulty variant: the pull asks for what is buffered when that is less than
\* size, so a short block comes back while the stream is still open.
CheckDoneReadAvailable(i, s) ==
    LET n == IF Len(s.buffer) < s.calls[i].size THEN Len(s.buffer) ELSE s.calls[i].size
        r == StreamRead(s.buffer, ended, n)
        p == [s.pulls EXCEPT ![i] = @ + 1]
    IN  IF ~r.data.null
        THEN [s EXCEPT
                !.buffer = r.rest,
                !.pulls = p,
                !.errorL = RemoveLast(@, i),
                !.calls[i] =
                    IF Len(r.data.bytes) # s.calls[i].size
                    THEN Reject(@, InsufficientData(s.calls[i].size, Len(r.data.bytes)))
                    ELSE Resolve(@, r.data)]
        ELSE [s EXCEPT
                !.pulls = p,
                !.readableL = Append(@, i)]

\* Faulty variant: a short block is pushed back into the stream before failing.
CheckDoneUnshift(i, s) ==
    LET r == StreamRead(s.buffer, ended, s.calls[i].size)
        p == [s.pulls EXCEPT ![i] = @ + 1]
    IN  IF ~r.data.null
        THEN IF Len(r.data.bytes) # s.calls[i].size
             THEN [s EXCEPT
                     !.pulls = p,
                     !.errorL = RemoveLast(@, i),
                     !.calls[i] =
                         Reject(@, InsufficientData(s.calls[i].size, Len(r.data.bytes)))]
             ELSE [s EXCEPT
                     !.buffer = r.rest,
                     !.pulls = p,
                     !.errorL = RemoveLast(@, i),
                     !.calls[i] = Resolve(@, r.data)]
        ELSE [s EXCEPT
                !.pulls = p,
                !.readableL = Append(@, i)]

\* Faulty variant: the block is copied out of the stream's buffer, not taken.
CheckDonePeek(i, s) ==
    LET r == StreamRead(s.buffer, ended, s.calls[i].size)
        p == [s.pulls EXCEPT ![i] = @ + 1]
    IN  IF ~r.data.null
        THEN [s EXCEPT
                !.pulls = p,
                !.errorL = RemoveLast(@, i),
                !.calls[i] =
                    IF Len(r.data.bytes) # s.calls[i].size
                    THEN Reject(@, InsufficientData(s.calls[i].size, Len(r.data.bytes)))
                    ELSE Resolve(@, r.data)]
        ELSE [s EXCEPT
                !.pulls = p,
                !.readableL = Append(@, i)]

\* checkDone of call i, run on state s.
CheckDone(i, s) ==
    LET r == StreamRead(s.buffer, ended, s.calls[i].size)
        p == [s.pulls EXCEPT ![i] = @ + 1]
    IN  IF ~r.data.null
        THEN [s EXCEPT
                !.buffer = r.rest,
                !.pulls = p,
                !.errorL = RemoveLast(@, i),
                !.calls[i] =
                    IF Len(r.data.bytes) # s.calls[i].size
                    THEN Reject(@, InsufficientData(s.calls[i].size, Len(r.data.bytes)))
                    ELSE Resolve(@, r.data)]
        ELSE [s EXCEPT
                !.pulls = p,
                !.readableL = Append(@, i)]

\* emit('readable'): every listener attached when the event is emitted runs once.
RECURSIVE FireReadable(_, _)
FireReadable(L, s) ==
    IF L = <<>> THEN s ELSE FireReadable(Tail(L), CheckDone(Head(L), s))

\* emit('error', e): every 'error' listener is the reject of its call.
RECURSIVE FireError(_, _, _)
FireError(L, e, cs) ==
    IF L = <<>> THEN cs
    ELSE FireError(Tail(L), e, [cs EXCEPT ![Head(L)] = Reject(@, e)])

Settled(i) == calls[i].state \in {"resolved", "rejected"}

Install(s) ==
    /\ buffer' = s.buffer
    /\ errorL' = s.errorL
    /\ readableL' = s.readableL
    /\ calls' = s.calls
    /\ pulls' = s.pulls

\* ------------------------------------------------------------------ actions
StreamInit ==
    /\ buffer = <<>>
    /\ ended = FALSE
    /\ fed = <<>>
    /\ readableDue = FALSE
    /\ errorL = <<>>
    /\ readableL = <<>>
    /\ calls = [i \in CallIds |-> IdleCall]
    /\ pulls = [i \in CallIds |-> 0]
    /\ errCount = 0
    /\ lastErr = NoErr

Init ==
    /\ StreamInit
    /\ dec = NoDec

\* readBytes(stream, size), issued once every earlier call has settled.
ReadBytes(i, size) ==
    /\ calls[i].state = "idle"
    /\ \A j \in CallIds : j < i => Settled(j)
    /\ Install(CheckDone(i,
          [Here EXCEPT !.errorL = Append(@, i),
                       !.calls[i] = [IdleCall EXCEPT !.state = "pending", !.size = size]]))
    /\ UNCHANGED <<ended, fed, readableDue, errCount, lastErr, dec>>

\* A chunk arrives in the stream's buffer.
Arrive(chunk) ==
    /\ ~ended
    /\ Len(fed) + Len(chunk) <= MaxLen
    /\ buffer' = buffer \o chunk
    /\ fed' = fed \o chunk
    /\ readableDue' = TRUE
    /\ UNCHANGED <<ended, errorL, readableL, calls, pulls, errCount, lastErr, dec>>

\* The stream ends.
End ==
    /\ ~ended
    /\ ended' = TRUE
    /\ readableDue' = TRUE
    /\ UNCHANGED <<buffer, fed, errorL, readableL, calls, pulls, errCount, lastErr, dec>>

\* The stream emits 'readable'.
EmitReadable ==
    /\ readableDue
    /\ readableDue' = FALSE
    /\ Install(FireReadable(readableL, [Here EXCEPT !.readableL = OnceFired(readableL)]))
    /\ UNCHANGED <<ended, fed, errCount, lastErr, dec>>

\* The stream emits 'error' with value e (unhandled without a listener).
EmitError(e) ==
    /\ errorL # <<>>
    /\ errCount < MaxErrors
    /\ calls' = FireError(errorL, e, calls)
    /\ errCount' = errCount + 1
    /\ lastErr' = e
    /\ UNCHANGED <<buffer, ended, fed, readableDue, errorL, readableL, pulls, dec>>

Next ==
    \/ \E i \in CallIds, size \in 0..MaxSize : ReadBytes(i, size)
    \/ \E chunk \in Chunks : Arrive(chunk)
    \/ End
    \/ EmitReadable
    \/ \E e \in StreamErrors : EmitError(e)

Spec == Init /\ [][Next]_vars

\* Callbacks that are scheduled do run.
FairSpec == Spec /\ WF_vars(EmitReadable)

\* ------------------------------------------------------------ claims C1..C7
Range(L) == {L[k] : k \in 1..Len(L)}

\* Bytes requested by the calls issued before call i.
RECURSIVE Off(_)
Off(i) == IF i = 1 THEN 0 ELSE Off(i - 1) + calls[i - 1].size

ResolvedUpTo(i) == \A j \in CallIds : j <= i => calls[j].state = "resolved"

C2_ShortStreamFails ==
    (ended /\ ~readableDue /\ errCount = 0) =>
        \A i \in CallIds :
            (calls[i].state # "idle" /\ Off(i) + calls[i].size > Len(fed)) =>
                /\ calls[i].state = "rejected"
                /\ calls[i].err.kind = "InsufficientData"
                /\ calls[i].block = NoBlock

\* C3: readBytes(stream, 0) has resolved with an empty block at the latest
\* when its first 'readable' check has run.
C3_ZeroSizeResolves ==
    \A i \in CallIds :
        (calls[i].state # "idle" /\ calls[i].size = 0 /\ pulls[i] >= 2) =>
            /\ calls[i].state = "resolved"
            /\ calls[i].block = Block(<<>>)

\* C4: a call that has resolved or rejected has no listener left on the
\* stream, neither its 'error' listener nor its 'readable' retry listener.
C4_NoListenerLeft ==
    \A i \in CallIds :
        Settled(i) => (i \notin Range(errorL) /\ i \notin Range(readableL))

\* C5: when the stream emits an error, every pending call fails with that
\* very value, and a call that failed with a stream error has its retry
\* listener detached and never pulls from the stream again.
C5_ErrorStopsRetry ==
    [][ /\ (errCount' = errCount + 1) =>
            \A i \in CallIds :
                calls[i].state = "pending" =>
                    (calls'[i].state = "rejected" /\ calls'[i].err = lastErr')
        /\ \A i \in CallIds :
            (calls[i].state = "rejected" /\ calls[i].err.kind = "StreamError") =>
                /\ i \notin Range(readableL)
                /\ pulls'[i] = pulls[i]
      ]_vars

\* C6: a resolved call holds a block of exactly the requested size; a call
\* that failed (or has not settled) holds no block, in particular no partial one.
C6_ExactOrNothing ==
    \A i \in CallIds :
        /\ calls[i].state = "resolved" =>
              (~calls[i].block.null /\ Len(calls[i].block.bytes) = calls[i].size)
        /\ calls[i].state # "resolved" => calls[i].block = NoBlock

\* A call failed on a short pull that did yield bytes, after another resolved.
C6_Witness ==
    /\ calls[1].state = "resolved"
    /\ calls[1].size = 2
    /\ calls[2].state = "rejected"
    /\ calls[2].err = InsufficientData(2, 1)

\* C7: under fair scheduling of the 'readable' callbacks, a pending call
\* settles once the stream holds at least size bytes or has ended.
C7_EventuallySettles ==
    \A i \in CallIds :
        (calls[i].state = "pending" /\ (Len(buffer) >= calls[i].size \/ ended))
            ~> Settled(i)

\* --------------------------------------------------- claims C14, C15, C18
\* C14: a call fails with InsufficientData only once the stream has ended,
\* and then on a pull that yielded fewer bytes than requested; while the
\* stream is open and has not emitted an error, a call that was issued is
\* either resolved or still pending, and no pull of a pending call whose
\* size exceeds what is buffered takes a byte out of the stream.
C14_ShortOnlyAfterEnd ==
    \A i \in CallIds :
        /\ (calls[i].state = "rejected" /\ calls[i].err.kind = "InsufficientData") =>
              (ended /\ calls[i].err.actual < calls[i].size)
        /\ (~ended /\ errCount = 0 /\ calls[i].state # "idle") =>
              calls[i].state \in {"resolved", "pending"}
        /\ (~ended /\ errCount = 0 /\ calls[i].state = "pending" /\ ResolvedUpTo(i - 1)) =>
              buffer = SubSeq(fed, Off(i) + 1, Len(fed))

\* A call for two bytes has pulled twice with one byte buffered on an open
\* stream and is still pending.
C14_Witness ==
    /\ ~ended
    /\ ~readableDue
    /\ calls[1].state = "pending"
    /\ calls[1].size = 2
    /\ Len(buffer) = 1
    /\ pulls[1] = 2

\* C15: a call that failed with InsufficientData reports the size it asked
\* for and the number of bytes its pull yielded (at least one, fewer than
\* asked, all that was left of the stream), holds no block, and the bytes of
\* the short pull are gone: the stream's buffer is empty and no later call
\* resolves.
C15_PartialDiscarded ==
    \A i \in CallIds :
        (calls[i].state = "rejected" /\ calls[i].err.kind = "InsufficientData") =>
            /\ calls[i].err.requested = calls[i].size
            /\ calls[i].err.actual >= 1
            /\ calls[i].err.actual < calls[i].size
            /\ ResolvedUpTo(i - 1) => calls[i].err.actual = Len(fed) - Off(i)
            /\ calls[i].block = NoBlock
            /\ buffer = <<>>
            /\ \A j \in CallIds : j > i => calls[j].state # "resolved"

\* The first call failed on a short pull and the call issued after it has
\* pulled from the stream and got nothing.
C15_Witness ==
    /\ calls[1].state = "rejected"
    /\ calls[1].err = InsufficientData(2, 1)
    /\ calls[2].state = "pending"
    /\ calls[2].size = 1
    /\ pulls[2] >= 1

\* Number of times call i is attached in listener list L.
Count(L, i) == Cardinality({k \in 1..Len(L) : L[k] = i})

\* C18: a pending call is attached exactly once as 'error' listener and at
\* most once as 'readable' retry listener, whatever has arrived and however
\* often it has retried.
C18_ListenerCounts ==
    \A i \in CallIds :
        calls[i].state = "pending" =>
            /\ Count(errorL, i) = 1
            /\ Count(readableL, i) <= 1

\* A call still pending after three pulls, with its two listeners attached.
C18_Witness ==
    \E i \in CallIds :
        /\ calls[i].state = "pending"
        /\ pulls[i] >= 3
        /\ Count(errorL, i) = 1
        /\ Count(readableL, i) = 1

\* ------------------------------------------------------- concurrent calls
\* readBytes(stream, size) issued while earlier calls may still be pending
\* (calls are numbered in the order they are issued).
ReadBytesConcurrent(i, size) ==
    /\ calls[i].state = "idle"
    /\ \A j \in CallIds : j < i => calls[j].state # "idle"
    /\ Install(CheckDone(i,
          [Here EXCEPT !.errorL = Append(@, i),
                       !.calls[i] = [IdleCall EXCEPT !.state = "pending", !.size = size]]))
    /\ UNCHANGED <<ended, fed, readableDue, errCount, lastErr, dec>>

\* The next n bytes of a stream whose k-th byte is k - 1.
CountedChunk(n) == [k \in 1..n |-> Len(fed) + k - 1]

NextConcurrent ==
    \/ \E i \in CallIds, size \in 0..MaxSize : ReadBytesConcurrent(i, size)
    \/ \E n \in 1..MaxChunk : Arrive(CountedChunk(n))
    \/ End
    \/ EmitReadable
    \/ \E e \in StreamErrors : EmitError(e)

SpecConcurrent == Init /\ [][NextConcurrent]_vars

\* C19: with calls outstanding at the same time on a stream whose bytes are
\* all different, every resolved call holds exactly size bytes that are a
\* contiguous run of the stream's bytes, and no two resolved calls hold a
\* byte in common.
C19_ConcurrentDisjointRuns ==
    /\ \A i \in CallIds :
          calls[i].state = "resolved" =>
              /\ Len(calls[i].block.bytes) = calls[i].size
              /\ calls[i].size >= 1
              /\ calls[i].block.bytes =
                    SubSeq(fed, calls[i].block.bytes[1] + 1,
                                calls[i].block.bytes[1] + calls[i].size)
    /\ \A i, j \in CallIds :
          (i # j /\ calls[i].state = "resolved" /\ calls[j].state = "resolved") =>
              Range(calls[i].block.bytes) \cap Range(calls[j].block.bytes) = {}

\* Both calls were outstanding together: the second, for one byte, was served
\* first, and the first, for two bytes, got the two bytes after it.
C19_Witness ==
    /\ calls[1].state = "resolved"
    /\ calls[1].block.bytes = <<1, 2>>
    /\ calls[2].state = "resolved"
    /\ calls[2].block.bytes = <<0>>

(***************************************************************************)
(* Part 2: the typed decoders.  Each awaits readBytes on its stream and     *)
(* decodes the block.  A decoder is an operator on the contents of a        *)
(* pre-loaded, ended stream (test/index.js createStream); dec holds the     *)
(* input, the call's arguments and its outcome.                             *)
(***************************************************************************)
DecBytes == {0, 1, 255}

\* await readBytes(stream, size) on a pre-loaded, ended stream: the one pull
\* of checkDone decides (a null pull is never retried with success, the
\* stream has ended).
AwaitReadBytes(input, size) ==
    LET r == StreamRead(input, TRUE, size)
    IN  IF r.data.null
        THEN [NoOut EXCEPT !.state = "pending", !.pulled = size, !.rest = r.rest]
        ELSE IF Len(r.data.bytes) # size
        THEN [NoOut EXCEPT !.state = "rejected", !.pulled = size, !.rest = r.rest,
                           !.err = [kind |-> "InsufficientData", message |-> "Attempted to read"]]
        ELSE [NoOut EXCEPT !.state = "resolved", !.pulled = size, !.rest = r.rest]

\* The block a resolved readBytes hands to the decoder.
BlockOf(input, size) == StreamRead(input, TRUE, size).data.bytes

\* val = val * 256 + b, on limbs.
ShiftIn(v, b) ==
    Num(FALSE, v.hi * 256 + (v.lo \div 65536), (v.lo % 65536) * 256 + b)

\* buf.readUIntBE(offset, byteLength), byteLength 1..6: most significant byte first.
RECURSIVE BufReadUIntBE(_, _, _)
BufReadUIntBE(buf, offset, byteLength) ==
    IF byteLength = 0 THEN Zero
    ELSE ShiftIn(BufReadUIntBE(buf, offset, byteLength - 1), buf[offset + byteLength])

Pow256(k) == IF k = 0 THEN 1 ELSE IF k = 1 THEN 256 ELSE 65536

\* buf.readUIntLE(offset, byteLength), byteLength 1..6: val += buf[offset + i] * 256^i.
RECURSIVE BufReadUIntLE(_, _, _)
BufReadUIntLE(buf, offset, byteLength) ==
    IF byteLength = 0 THEN Zero
    ELSE LET v == BufReadUIntLE(buf, offset, byteLength - 1)
             i == byteLength - 1
             b == buf[offset + byteLength]
         IN  IF i < 3 THEN Num(FALSE, v.hi, v.lo + b * Pow256(i))
             ELSE Num(FALSE, v.hi + b * Pow256(i - 3), v.lo)

Threw(o, kind, message) ==
    [o EXCEPT !.state = "rejected", !.err = [kind |-> kind, message |-> message]]

\* Faulty variant: the range check looks at the wrong end of the block.
ReadUInt64BEWrongEnd(input) ==
    LET o == [AwaitReadBytes(input, 8) EXCEPT !.via = "readUInt64BE"]
        buf == BlockOf(input, 8)
    IN  IF o.state # "resolved" THEN o
        ELSE IF buf[7] # 0 \/ buf[8] # 0
        THEN Threw(o, "ValueOutOfRange", "Value ouf range")
        ELSE [o EXCEPT !.num = BufReadUIntBE(buf, 2, 6)]

\* readUInt64BE(stream); offsets are those of the source, buf[k] is buf[k + 1] here.
ReadUInt64BE(input) ==
    LET o == [AwaitReadBytes(input, 8) EXCEPT !.via = "readUInt64BE"]
        buf == BlockOf(input, 8)
    IN  IF o.state # "resolved" THEN o
        ELSE IF buf[1] # 0 \/ buf[2] # 0
        THEN Threw(o, "ValueOutOfRange", "Value ouf range")
        ELSE [o EXCEPT !.num = BufReadUIntBE(buf, 2, 6)]

\* readUInt64LE(stream)
ReadUInt64LE(input) ==
    LET o == [AwaitReadBytes(input, 8) EXCEPT !.via = "readUInt64LE"]
        buf == BlockOf(input, 8)
    IN  IF o.state # "resolved" THEN o
        ELSE IF buf[7] # 0 \/ buf[8] # 0
        THEN Threw(o, "ValueOutOfRange", "Value out of range")
        ELSE [o EXCEPT !.num = BufReadUIntLE(buf, 0, 6)]

Loaded(inputs, args) ==
    /\ StreamInit
    /\ dec \in {[NoDec EXCEPT !.input = b, !.arg = a] : b \in inputs, a \in args}

Decode(op, out) ==
    /\ dec.op = "none"
    /\ dec' = [dec EXCEPT !.op = op, !.out = out]
    /\ UNCHANGED streamVars

\* ---- the 64-bit unsigned decoders on every 8-byte input
InitUInt64 == Loaded([1..8 -> DecBytes], {0})

CallReadUInt64BE == Decode("readUInt64BE", ReadUInt64BE(dec.input))

CallReadUInt64LE == Decode("readUInt64LE", ReadUInt64LE(dec.input))

NextUInt64 == CallReadUInt64BE \/ CallReadUInt64LE

SpecUInt64 == InitUInt64 /\ [][NextUInt64]_vars

\* -------------------------------------------------------------------- C8
\* C8: on every 8-byte input readUInt64BE succeeds exactly when bytes 0 and 1
\* are zero and returns the big-endian value of bytes 2..7; readUInt64LE
\* succeeds exactly when bytes 6 and 7 are zero and returns the little-endian
\* value of bytes 0..5; a result is at most 2^48 - 1, and every other call
\* fails with ValueOutOfRange.
C8_UInt64Restricted ==
    LET b == dec.input
        o == dec.out
        InRange == o.num.hi <= Limb - 1 /\ o.num.lo <= Limb - 1 /\ ~o.num.neg
        Fails == o.state = "rejected" /\ o.err.kind = "ValueOutOfRange"
    IN  /\ dec.op = "readUInt64BE" =>
            IF b[1] = 0 /\ b[2] = 0
            THEN /\ o.state = "resolved"
                 /\ o.num.hi = b[3] * 65536 + b[4] * 256 + b[5]
                 /\ o.num.lo = b[6] * 65536 + b[7] * 256 + b[8]
                 /\ InRange
            ELSE Fails
        /\ dec.op = "readUInt64LE" =>
            IF b[7] = 0 /\ b[8] = 0
            THEN /\ o.state = "resolved"
                 /\ o.num.hi = b[6] * 65536 + b[5] * 256 + b[4]
                 /\ o.num.lo = b[3] * 65536 + b[2] * 256 + b[1]
                 /\ InRange
            ELSE Fails

\* The largest value, 2^48 - 1, was decoded.
C8_Witness ==
    /\ dec.op = "readUInt64BE"
    /\ dec.input = <<0, 0, 255, 255, 255, 255, 255, 255>>
    /\ dec.out.state = "resolved"
    /\ dec.out.num = Num(FALSE, Limb - 1, Limb - 1)

\* ---- the generic decoders, readUIntBE / readUIntLE / readIntBE / readIntLE
ByteLengths == 1..8

\* 2^(8 * byteLength) and 2^(8 * byteLength - 1), byteLength 1..6, on limbs.
Pow2Bits(byteLength) ==
    IF byteLength <= 2 THEN Num(FALSE, 0, Pow256(byteLength))
    ELSE IF byteLength = 3 THEN Num(FALSE, 1, 0)
    ELSE Num(FALSE, Pow256(byteLength - 3) * (IF byteLength = 6 THEN 256 ELSE 1), 0)

SignBit(byteLength) ==
    IF byteLength <= 3 THEN Num(FALSE, 0, 128 * Pow256(byteLength - 1))
    ELSE Num(FALSE, 128 * Pow256(byteLength - 4), 0)

NumGE(a, b) == a.hi > b.hi \/ (a.hi = b.hi /\ a.lo >= b.lo)

\* val -= 2^(8 * byteLength) when val >= 2^(8 * byteLength - 1).
ToSigned(u, byteLength) ==
    IF ~NumGE(u, SignBit(byteLength)) THEN u
    ELSE LET m == Pow2Bits(byteLength)
         IN  IF m.lo >= u.lo THEN Num(TRUE, m.hi - u.hi, m.lo - u.lo)
             ELSE Num(TRUE, m.hi - u.hi - 1, m.lo + Limb - u.lo)

\* buf.readIntBE(0, byteLength) / buf.readIntLE(0, byteLength), byteLength 1..6.
BufReadIntBE(buf, offset, byteLength) == ToSigned(BufReadUIntBE(buf, offset, byteLength), byteLength)

BufReadIntLE(buf, offset, byteLength) == ToSigned(BufReadUIntLE(buf, offset, byteLength), byteLength)

\* A number computed with loss of precision, whose value the runtime decides.
Imprecise == Num(FALSE, 0 - 1, 0 - 1)

\* What the Buffer's own generic decode does with a block of byteLength
\* bytes: for 1..6 the value; beyond 6 the runtime decides, either its range
\* check throws or the arithmetic goes on without one.
BufferDecode(o, via, byteLength, num) ==
    IF byteLength <= 6
    THEN {[o EXCEPT !.via = via, !.num = num]}
    ELSE {Threw([o EXCEPT !.via = via], "RangeError", "byteLength out of range"),
          [o EXCEPT !.via = via, !.num = Imprecise]}

\* throw new Error('Invalid byteLength: ' + byteLength), before any read.
InvalidByteLength(input) ==
    Threw([NoOut EXCEPT !.rest = input], "InvalidArgument", "Invalid byteLength: ")

\* Faulty variant: the case 7 guard is missing, 7 bytes go to the generic decode.
ReadUIntBENoGuard(input, byteLength) ==
    IF byteLength = 8 THEN {ReadUInt64BE(input)}
    ELSE LET o == AwaitReadBytes(input, byteLength)
             buf == BlockOf(input, byteLength)
         IN  IF o.state # "resolved" THEN {o}
             ELSE BufferDecode(o, "Buffer.readUIntBE", byteLength,
                               BufReadUIntBE(buf, 0, byteLength))

\* readUIntBE(stream, byteLength): the set of outcomes.
ReadUIntBE(input, byteLength) ==
    IF byteLength = 8 THEN {ReadUInt64BE(input)}
    ELSE IF byteLength = 7 THEN {InvalidByteLength(input)}
    ELSE LET o == AwaitReadBytes(input, byteLength)
             buf == BlockOf(input, byteLength)
         IN  IF o.state # "resolved" THEN {o}
             ELSE BufferDecode(o, "Buffer.readUIntBE", byteLength,
                               BufReadUIntBE(buf, 0, byteLength))

\* readUIntLE(stream, byteLength)
ReadUIntLE(input, byteLength) ==
    IF byteLength = 8 THEN {ReadUInt64LE(input)}
    ELSE IF byteLength = 7 THEN {InvalidByteLength(input)}
    ELSE LET o == AwaitReadBytes(input, byteLength)
             buf == BlockOf(input, byteLength)
         IN  IF o.state # "resolved" THEN {o}
             ELSE BufferDecode(o, "Buffer.readUIntLE", byteLength,
                               BufReadUIntLE(buf, 0, byteLength))

\* readIntBE(stream, byteLength): no dispatch on byteLength.
ReadIntBE(input, byteLength) ==
    LET o == AwaitReadBytes(input, byteLength)
        buf == BlockOf(input, byteLength)
    IN  IF o.state # "resolved" THEN {o}
        ELSE BufferDecode(o, "Buffer.readIntBE", byteLength,
                          IF byteLength <= 6 THEN BufReadIntBE(buf, 0, byteLength) ELSE Imprecise)

\* readIntLE(stream, byteLength)
ReadIntLE(input, byteLength) ==
    LET o == AwaitReadBytes(input, byteLength)
        buf == BlockOf(input, byteLength)
    IN  IF o.state # "resolved" THEN {o}
        ELSE BufferDecode(o, "Buffer.readIntLE", byteLength,
                          IF byteLength <= 6 THEN BufReadIntLE(buf, 0, byteLength) ELSE Imprecise)

InitIntN == Loaded([1..8 -> DecBytes], ByteLengths)

CallReadUIntBE == \E o \in ReadUIntBE(dec.input, dec.arg) : Decode("readUIntBE", o)

CallReadUIntLE == \E o \in ReadUIntLE(dec.input, dec.arg) : Decode("readUIntLE", o)

CallReadIntBE == \E o \in ReadIntBE(dec.input, dec.arg) : Decode("readIntBE", o)

CallReadIntLE == \E o \in ReadIntLE(dec.input, dec.arg) : Decode("readIntLE", o)

NextIntN == CallReadUIntBE \/ CallReadUIntLE \/ CallReadIntBE \/ CallReadIntLE

SpecIntN == InitIntN /\ [][NextIntN]_vars

\* -------------------------------------------------------------------- C9
\* Base-256 digit k (0 the least significant) of a magnitude on limbs.
Digit(n, k) ==
    IF k < 3 THEN (n.lo \div Pow256(k)) % 256 ELSE (n.hi \div Pow256(k - 3)) % 256

\* The bytes of the block are the digits of the unsigned value u.
IsBE(u, b, len) ==
    /\ ~u.neg
    /\ \A k \in 1..6 : Digit(u, 6 - k) = (IF k > 6 - len THEN b[k - (6 - len)] ELSE 0)

IsLE(u, b, len) ==
    /\ ~u.neg
    /\ \A k \in 1..6 : Digit(u, k - 1) = (IF k <= len THEN b[k] ELSE 0)

\* v is the two's-complement reading of the len-byte unsigned value u:
\* u itself below the sign bit, else the negative number with v + u = 2^(8 len).
IsSignedOf(v, u, len) ==
    IF v.neg
    THEN /\ Digit(u, len - 1) >= 128
         /\ (v.lo + u.lo) % Limb = Pow2Bits(len).lo % Limb
         /\ v.hi + u.hi + ((v.lo + u.lo) \div Limb) = Pow2Bits(len).hi + (Pow2Bits(len).lo \div Limb)
    ELSE Digit(u, len - 1) < 128 /\ v = u

GenericVia(op) ==
    CASE op = "readUIntBE" -> "Buffer.readUIntBE"
      [] op = "readUIntLE" -> "Buffer.readUIntLE"
      [] op = "readIntBE" -> "Buffer.readIntBE"
      [] op = "readIntLE" -> "Buffer.readIntLE"

Fixed64Via(op) ==
    CASE op = "readUIntBE" -> "readUInt64BE"
      [] op = "readUIntLE" -> "readUInt64LE"
      [] op = "readIntBE" -> "readInt64BE"
      [] op = "readIntLE" -> "readInt64LE"

GenericOps == {"readUIntBE", "readUIntLE", "readIntBE", "readIntLE"}

\* The generic decode of exactly byteLength (1..6) bytes, for each of the four.
DelegatesToGeneric ==
    LET o == dec.out
        b == dec.input
        len == dec.arg
    IN  /\ o.via = GenericVia(dec.op)
        /\ o.pulled = len
        /\ o.rest = Drop(b, len)
        /\ o.state = "resolved"
        /\ dec.op = "readUIntBE" => IsBE(o.num, b, len)
        /\ dec.op = "readUIntLE" => IsLE(o.num, b, len)
        /\ dec.op = "readIntBE" =>
              \E u \in {BufReadUIntBE(b, 0, len)} : IsBE(u, b, len) /\ IsSignedOf(o.num, u, len)
        /\ dec.op = "readIntLE" =>
              \E u \in {BufReadUIntLE(b, 0, len)} : IsLE(u, b, len) /\ IsSignedOf(o.num, u, len)

RejectsArgument ==
    /\ dec.out.state = "rejected"
    /\ dec.out.err.kind = "InvalidArgument"
    /\ dec.out.pulled = 0
    /\ dec.out.rest = dec.input

BufToString(buf, encoding) ==
    [k \in 1..Len(buf) |->
        IF encoding = "utf8" /\ buf[k] >= 128 THEN 65533 ELSE buf[k]]

\* readText(stream, size, encoding)
ReadText(input, size, encoding) ==
    LET o == [AwaitReadBytes(input, size) EXCEPT !.via = "readText"]
    IN  IF o.state # "resolved" THEN o
        ELSE [o EXCEPT !.text = BufToString(BlockOf(input, size), encoding)]

UUID_STRING_LENGTH == 36

\* [a-f0-9] under the i flag
IsHex(c) == c \in 48..57 \/ c \in 97..102 \/ c \in 65..70

Rep(x, n) == [k \in 1..n |-> x]

\* /[a-f0-9]{8}-[a-f0-9]{4}-[a-f0-9]{4}-[a-f0-9]{4}-[a-f0-9]{12}/i, atom by atom
UUID_STRING_PATTERN_ATOMS ==
    Rep("hex", 8) \o <<"dash">> \o Rep("hex", 4) \o <<"dash">> \o Rep("hex", 4)
        \o <<"dash">> \o Rep("hex", 4) \o <<"dash">> \o Rep("hex", 12)

AtomMatches(atom, c) == IF atom = "hex" THEN IsHex(c) ELSE c = 45

\* pattern.test(text) of a pattern without anchors: a match starting anywhere.
RegExpTest(atoms, text) ==
    \E p \in 0..(Len(text) - Len(atoms)) :
        \A k \in 1..Len(atoms) : AtomMatches(atoms[k], text[p + k])

\* The values a caller may pass as validator: nothing (the default applies),
\* a pattern, a predicate function, or a value of another type, truthy (a
\* non-empty string) or falsy (null).
UUID_STRING_PATTERN == [kind |-> "RegExp", accepts |-> "uuid"]
Validators ==
    {[kind |-> "Undefined", accepts |-> "none"]}
    \cup {[kind |-> k, accepts |-> a] : k \in {"RegExp", "Function"}, a \in {"all", "none"}}
    \cup {[kind |-> "String", accepts |-> "none"], [kind |-> "Null", accepts |-> "none"]}

Truthy(v) == v.kind \in {"RegExp", "Function", "String"}

\* validator.test(text) / validator(text)
Accepts(v, text) ==
    IF v.accepts = "uuid" THEN RegExpTest(UUID_STRING_PATTERN_ATOMS, text)
    ELSE v.accepts = "all"

\* readTextUuid(stream, {validator, size, encoding}); an option not given
\* takes its default.
ReadTextUuid(input, opts) ==
    LET validator == IF opts.validator.kind = "Undefined" THEN UUID_STRING_PATTERN
                     ELSE opts.validator
        size == IF opts.size = 0 THEN UUID_STRING_LENGTH ELSE opts.size
        o == ReadText(input, size, opts.encoding)
        r == [o EXCEPT !.via = "readTextUuid"]
    IN  IF o.state # "resolved" THEN r
        ELSE IF ~Truthy(validator) THEN r
        ELSE IF validator.kind = "RegExp"
        THEN IF ~Accepts(validator, o.text)
             THEN Threw(r, "UuidValidationFailed", "UUID failed validation: ")
             ELSE r
        ELSE IF validator.kind = "Function"
        THEN IF ~Accepts(validator, o.text)
             THEN Threw(r, "UuidValidationFailed", "UUID failed validation: ")
             ELSE r
        ELSE Threw(r, "InvalidValidator", "UUID validator is of invalid type: ")

\* Stream contents: the UUID of the tests, with at most one character changed
\* and at most one character put before and after it.
TEST_UUID ==
    <<52, 98, 102, 97, 98, 99, 48, 49, 45, 100, 51, 56, 53, 45, 52, 54, 102, 101,
      45, 98, 48, 49, 48, 45, 56, 101, 98, 49, 55, 99, 102, 54, 53, 55, 101, 55>>

\* '-', '0', 'F', 'g' and the byte 255
OtherChars == {45, 48, 70, 103, 255}
Affixes == {<<>>, <<97>>, <<122>>}

UuidInputs ==
    {pre \o m \o post :
        pre \in Affixes, post \in Affixes,
        m \in {TEST_UUID} \cup
              {[TEST_UUID EXCEPT ![k] = c] : k \in 1..Len(TEST_UUID), c \in OtherChars}}

\* size: 0 stands for an option that is not given.
UuidOpts ==
    {[validator |-> v, size |-> s, encoding |-> e] :
        v \in Validators, s \in {0, UUID_STRING_LENGTH + 1}, e \in {"utf8", "latin1"}}

InitUuid == Loaded(UuidInputs, UuidOpts)

CallReadTextUuid == Decode("readTextUuid", ReadTextUuid(dec.input, dec.arg))

NextUuid == CallReadTextUuid

SpecUuid == InitUuid /\ [][NextUuid]_vars

\* ------------------------------------------------------------------- C10
\* A UUID in its text form: 36 characters, dashes at 9, 14, 19 and 24, hex
\* digits of either case everywhere else.
IsUuidText(text) ==
    /\ Len(text) = 36
    /\ \A k \in 1..36 : IF k \in {9, 14, 19, 24} THEN text[k] = 45 ELSE IsHex(text[k])

SizeRead == IF dec.arg.size = 0 THEN 36 ELSE dec.arg.size

\* C10: readTextUuid reads size bytes (default 36), decodes them and returns
\* the text unchanged only if the validator accepts it; it fails with
\* UuidValidationFailed when the validator rejects, fails when the validator
\* is neither a pattern nor a predicate function, and with the default
\* validator never returns a text that is not a UUID.
C10_ValidatedUuid ==
    (dec.op = "readTextUuid" /\ Len(dec.input) >= SizeRead) =>
        LET v == dec.arg.validator
            o == dec.out
            text == BufToString(Take(dec.input, SizeRead), dec.arg.encoding)
        IN  /\ o.pulled = SizeRead
            /\ o.state = "resolved" => o.text = text
            /\ v.kind \in {"RegExp", "Function"} =>
                  IF v.accepts = "all" THEN o.state = "resolved"
                  ELSE o.state = "rejected" /\ o.err.kind = "UuidValidationFailed"
            /\ v.kind \in {"String", "Null"} => o.state = "rejected"
            /\ v.kind = "Undefined" =>
                  IF IsUuidText(text) THEN o.state = "resolved"
                  ELSE o.state = "rejected" /\ o.err.kind = "UuidValidationFailed"

\* ---- readBinaryUuid
\* One hex digit of buf.toString('hex'), as a character code: 0-9, a-f.
HexChar(d) == IF d < 10 THEN 48 + d ELSE 87 + d

\* buf.toString('hex'): two lowercase hex digits per byte.
RECURSIVE BufToHex(_)
BufToHex(buf) ==
    IF buf = <<>> THEN <<>>
    ELSE <<HexChar(buf[1] \div 16), HexChar(buf[1] % 16)>> \o BufToHex(Tail(buf))

\* buf.slice(start, end)
BufSlice(buf, start, end) == SubSeq(buf, start + 1, end)

\* parts.join('-')
RECURSIVE JoinDash(_)
JoinDash(parts) ==
    IF Len(parts) = 1 THEN parts[1]
    ELSE parts[1] \o <<45>> \o JoinDash(Tail(parts))

\* Faulty variant: the last group stops one byte early.
ReadBinaryUuidShortTail(input) ==
    LET o == [AwaitReadBytes(input, 16) EXCEPT !.via = "readBinaryUuid"]
        buf == BlockOf(input, 16)
    IN  IF o.state # "resolved" THEN o
        ELSE [o EXCEPT !.text = JoinDash(<<BufToHex(BufSlice(buf, 0, 4)),
                                           BufToHex(BufSlice(buf, 4, 6)),
                                           BufToHex(BufSlice(buf, 6, 8)),
                                           BufToHex(BufSlice(buf, 8, 10)),
                                           BufToHex(BufSlice(buf, 10, 15))>>)]

\* readBinaryUuid(stream)
ReadBinaryUuid(input) ==
    LET o == [AwaitReadBytes(input, 16) EXCEPT !.via = "readBinaryUuid"]
        buf == BlockOf(input, 16)
    IN  IF o.state # "resolved" THEN o
        ELSE [o EXCEPT !.text = JoinDash(<<BufToHex(BufSlice(buf, 0, 4)),
                                           BufToHex(BufSlice(buf, 4, 6)),
                                           BufToHex(BufSlice(buf, 6, 8)),
                                           BufToHex(BufSlice(buf, 8, 10)),
                                           BufToHex(BufSlice(buf, 10, 16))>>)]

\* UUID.replace(/\-/g, '')
StripDashes(text) == SelectSeq(text, LAMBDA c : c # 45)

\* The value of one hex digit given as a character code.
HexValue(c) == IF c <= 57 THEN c - 48 ELSE IF c >= 97 THEN c - 87 ELSE c - 55

\* new Buffer(text, 'hex'): one byte per pair of hex digits.
RECURSIVE BufferFromHex(_)
BufferFromHex(text) ==
    IF Len(text) < 2 THEN <<>>
    ELSE <<HexValue(text[1]) * 16 + HexValue(text[2])>> \o BufferFromHex(Drop(text, 2))

\* The 16-byte form of the test's UUID.
TEST_UUID_BYTES == BufferFromHex(StripDashes(TEST_UUID))

\* Byte values on both sides of every hex digit boundary.
HexSamples == {0, 9, 10, 15, 16, 159, 160, 255}

\* The test's UUID, the same with one byte replaced, and blocks of one
\* repeated byte; each alone in the stream and followed by one more byte.
BinaryUuidInputs ==
    LET blocks == {TEST_UUID_BYTES}
                  \cup {[TEST_UUID_BYTES EXCEPT ![k] = v] : k \in 1..16, v \in HexSamples}
                  \cup {[k \in 1..16 |-> v] : v \in HexSamples}
    IN  {b \o tail : b \in blocks, tail \in {<<>>, <<7>>}}

InitBinaryUuid == Loaded(BinaryUuidInputs, {0})

CallReadBinaryUuid == Decode("readBinaryUuid", ReadBinaryUuid(dec.input))

NextBinaryUuid == CallReadBinaryUuid

SpecBinaryUuid == InitBinaryUuid /\ [][NextBinaryUuid]_vars

\* -------------------------------------------------------------------- C12
\* "0123456789abcdef"
LowerHexDigits == <<48, 49, 50, 51, 52, 53, 54, 55, 56, 57, 97, 98, 99, 100, 101, 102>>

\* Dashes that precede byte k (0-based) in the 8-4-4-4-12 layout.
DashesBefore(k) ==
    IF k < 4 THEN 0 ELSE IF k < 6 THEN 1 ELSE IF k < 8 THEN 2 ELSE IF k < 10 THEN 3 ELSE 4

\* C12: on every 16-byte input readBinaryUuid resolves, without validating
\* anything, with a 36-character text: dashes at the positions of the
\* 8-4-4-4-12 layout and, for every byte in order, its two lowercase hex
\* digits; it takes exactly 16 bytes from the stream; and on the 16-byte form
\* of the canonical lowercase UUID it returns that UUID.
C12_BinaryUuidText ==
    dec.op = "readBinaryUuid" =>
        LET b == dec.input
            o == dec.out
        IN  /\ o.state = "resolved"
            /\ o.pulled = 16
            /\ o.rest = Drop(b, 16)
            /\ Len(o.text) = 36
            /\ \A p \in {9, 14, 19, 24} : o.text[p] = 45
            /\ \A k \in 0..15 :
                  LET p == 2 * k + DashesBefore(k) + 1
                  IN  /\ o.text[p] = LowerHexDigits[(b[k + 1] \div 16) + 1]
                      /\ o.text[p + 1] = LowerHexDigits[(b[k + 1] % 16) + 1]
            /\ Take(b, 16) = TEST_UUID_BYTES => o.text = TEST_UUID

\* The test's UUID was read from its 16-byte form, a 17th byte left behind.
C12_Witness ==
    /\ dec.op = "readBinaryUuid"
    /\ dec.input = <<75, 250, 188, 1, 211, 133, 70, 254, 176, 16, 142, 177, 124, 246, 87, 231, 7>>
    /\ dec.out.text = TEST_UUID
    /\ dec.out.rest = <<7>>

\* ---- the fixed-width decoders and the buffers the tests create for them
\* const buf = await readBytes(stream, size), in the decoder named via.
AwaitBlock(input, size, via) == [AwaitReadBytes(input, size) EXCEPT !.via = via]

\* buf.readInt8(0), buf.readInt16BE(0), ... are the Buffer's decodes of 1, 2
\* and 4 bytes at offset 0.
ReadInt8(input) ==
    LET o == AwaitBlock(input, 1, "readInt8")
    IN  IF o.state # "resolved" THEN o
        ELSE [o EXCEPT !.num = BufReadIntBE(BlockOf(input, 1), 0, 1)]

\* Faulty variant: the big-endian decoder decodes little-endian.
ReadInt16BESwapped(input) ==
    LET o == AwaitBlock(input, 2, "readInt16BE")
    IN  IF o.state # "resolved" THEN o
        ELSE [o EXCEPT !.num = BufReadIntLE(BlockOf(input, 2), 0, 2)]

ReadInt16BE(input) ==
    LET o == AwaitBlock(input, 2, "readInt16BE")
    IN  IF o.state # "resolved" THEN o
        ELSE [o EXCEPT !.num = BufReadIntBE(BlockOf(input, 2), 0, 2)]

ReadInt16LE(input) ==
    LET o == AwaitBlock(input, 2, "readInt16LE")
    IN  IF o.state # "resolved" THEN o
        ELSE [o EXCEPT !.num = BufReadIntLE(BlockOf(input, 2), 0, 2)]

ReadInt32BE(input) ==
    LET o == AwaitBlock(input, 4, "readInt32BE")
    IN  IF o.state # "resolved" THEN o
        ELSE [o EXCEPT !.num = BufReadIntBE(BlockOf(input, 4), 0, 4)]

ReadInt32LE(input) ==
    LET o == AwaitBlock(input, 4, "readInt32LE")
    IN  IF o.state # "resolved" THEN o
        ELSE [o EXCEPT !.num = BufReadIntLE(BlockOf(input, 4), 0, 4)]

\* Faulty variant: the one-byte decoder asks readBytes for two bytes.
ReadUInt8TwoBytes(input) ==
    LET o == AwaitBlock(input, 2, "readUInt8")
    IN  IF o.state # "resolved" THEN o
        ELSE [o EXCEPT !.num = BufReadUIntBE(BlockOf(input, 2), 0, 1)]

ReadUInt8(input) ==
    LET o == AwaitBlock(input, 1, "readUInt8")
    IN  IF o.state # "resolved" THEN o
        ELSE [o EXCEPT !.num = BufReadUIntBE(BlockOf(input, 1), 0, 1)]

ReadUInt16BE(input) ==
    LET o == AwaitBlock(input, 2, "readUInt16BE")
    IN  IF o.state # "resolved" THEN o
        ELSE [o EXCEPT !.num = BufReadUIntBE(BlockOf(input, 2), 0, 2)]

ReadUInt16LE(input) ==
    LET o == AwaitBlock(input, 2, "readUInt16LE")
    IN  IF o.state # "resolved" THEN o
        ELSE [o EXCEPT !.num = BufReadUIntLE(BlockOf(input, 2), 0, 2)]

ReadUInt32BE(input) ==
    LET o == AwaitBlock(input, 4, "readUInt32BE")
    IN  IF o.state # "resolved" THEN o
        ELSE [o EXCEPT !.num = BufReadUIntBE(BlockOf(input, 4), 0, 4)]

ReadUInt32LE(input) ==
    LET o == AwaitBlock(input, 4, "readUInt32LE")
    IN  IF o.state # "resolved" THEN o
        ELSE [o EXCEPT !.num = BufReadUIntLE(BlockOf(input, 4), 0, 4)]

\* (value >>> (8 * k)) & 0xff of a non-negative value, on limbs.
ByteOf(u, k) ==
    IF k < 3 THEN (u.lo \div Pow256(k)) % 256 ELSE (u.hi \div Pow256(k - 3)) % 256

\* The unsigned number whose bytes a write of val stores: val itself, or
\* 2^(8 * size) - |val| for a negative val.
Stored(val, size) ==
    IF ~val.neg THEN val
    ELSE LET m == Pow2Bits(size)
         IN  IF m.lo >= val.lo THEN Num(FALSE, m.hi - val.hi, m.lo - val.lo)
             ELSE Num(FALSE, m.hi - val.hi - 1, m.lo + Limb - val.lo)

\* new Buffer(size) filled by buf.writeIntBE / writeUIntBE(val, 0, size).
CreateIntBE(val, size) == [k \in 1..size |-> ByteOf(Stored(val, size), size - k)]

\* new Buffer(size) filled by buf.writeIntLE / writeUIntLE(val, 0, size).
CreateIntLE(val, size) == [k \in 1..size |-> ByteOf(Stored(val, size), k - 1)]

\* Magnitudes of the values encoded: every 8-bit one, and 16- and 32-bit
\* ones around zero, the sign boundary, the top of the range and the tests'
\* 12345 and one million.
Magnitudes(size) ==
    IF size = 1 THEN {Num(FALSE, 0, lo) : lo \in 0..255}
    ELSE IF size = 2
    THEN {Num(FALSE, 0, lo) : lo \in {0, 1, 2, 127, 128, 255, 256, 257, 12345, 32767,
                                      32768, 32769, 65534, 65535}}
    ELSE {Num(FALSE, hi, lo) : hi \in {0, 1, 127, 128, 129, 255},
                               lo \in {0, 1, 255, 256, 65535, 65536, 1000000,
                                       Limb - 2, Limb - 1}}

\* The values of a width: 0 .. 2^(8 size) - 1, or -2^(8 size - 1) .. 2^(8 size - 1) - 1.
ValuesOf(size, signed) ==
    IF ~signed THEN {m \in Magnitudes(size) : ~NumGE(m, Pow2Bits(size))}
    ELSE {m \in Magnitudes(size) : ~NumGE(m, SignBit(size))}
         \cup {[m EXCEPT !.neg = TRUE] :
                  m \in {x \in Magnitudes(size) : NumGE(SignBit(size), x) /\ x # Zero}}

\* createStream(createIntBE(val, size)) and its siblings: a value of a width,
\* a signedness and a byte order, encoded into the stream.
InitRoundTrip ==
    /\ StreamInit
    /\ \E size \in {1, 2, 4}, signed \in BOOLEAN, order \in {"BE", "LE"} :
         \E v \in ValuesOf(size, signed) :
            /\ size = 1 => order = "BE"
            /\ dec = [NoDec EXCEPT
                        !.arg = [value |-> v, size |-> size, signed |-> signed, order |-> order],
                        !.input = IF order = "BE" THEN CreateIntBE(v, size)
                                  ELSE CreateIntLE(v, size)]

\* The buffer in the stream was created for this width, signedness and order.
CreatedFor(size, signed, order) ==
    dec.arg.size = size /\ dec.arg.signed = signed /\ dec.arg.order = order

CallReadInt8 == CreatedFor(1, TRUE, "BE") /\ Decode("readInt8", ReadInt8(dec.input))

CallReadInt16BE == CreatedFor(2, TRUE, "BE") /\ Decode("readInt16BE", ReadInt16BE(dec.input))

CallReadInt16LE == CreatedFor(2, TRUE, "LE") /\ Decode("readInt16LE", ReadInt16LE(dec.input))

CallReadInt32BE == CreatedFor(4, TRUE, "BE") /\ Decode("readInt32BE", ReadInt32BE(dec.input))

CallReadInt32LE == CreatedFor(4, TRUE, "LE") /\ Decode("readInt32LE", ReadInt32LE(dec.input))

CallReadUInt8 == CreatedFor(1, FALSE, "BE") /\ Decode("readUInt8", ReadUInt8(dec.input))

CallReadUInt16BE == CreatedFor(2, FALSE, "BE") /\ Decode("readUInt16BE", ReadUInt16BE(dec.input))

CallReadUInt16LE == CreatedFor(2, FALSE, "LE") /\ Decode("readUInt16LE", ReadUInt16LE(dec.input))

CallReadUInt32BE == CreatedFor(4, FALSE, "BE") /\ Decode("readUInt32BE", ReadUInt32BE(dec.input))

CallReadUInt32LE == CreatedFor(4, FALSE, "LE") /\ Decode("readUInt32LE", ReadUInt32LE(dec.input))

NextRoundTrip ==
    \/ CallReadInt8
    \/ CallReadInt16BE
    \/ CallReadInt16LE
    \/ CallReadInt32BE
    \/ CallReadInt32LE
    \/ CallReadUInt8
    \/ CallReadUInt16BE
    \/ CallReadUInt16LE
    \/ CallReadUInt32BE
    \/ CallReadUInt32LE

SpecRoundTrip == InitRoundTrip /\ [][NextRoundTrip]_vars

\* -------------------------------------------------------------------- C13
\* C13: a signed or unsigned integer of 8, 16 or 32 bits, encoded in either
\* byte order and decoded by the decoder of the same width, signedness and
\* order, comes back as the value that was encoded, and the decoder has taken
\* exactly the bytes of the encoding.
C13_RoundTrip ==
    dec.op # "none" =>
        /\ dec.out.state = "resolved"
        /\ dec.out.num = dec.arg.value
        /\ dec.out.pulled = dec.arg.size
        /\ dec.out.rest = <<>>

\* Minus one million went through the 32-bit little-endian encoding.
C13_Witness ==
    /\ dec.op = "readInt32LE"
    /\ dec.arg.value = Num(TRUE, 0, 1000000)
    /\ dec.input = <<192, 189, 240, 255>>
    /\ dec.out.num = Num(TRUE, 0, 1000000)

(***************************************************************************)
(* Part 3: decoder calls on a live stream.  A program of decoder calls,     *)
(* issued one after the other, runs against a stream that receives its      *)
(* contents in chunks: each decoder's readBytes is the call of Part 1, and   *)
(* the decoder works on the block that call resolves with.  dec.input is    *)
(* what the stream will deliver, dec.arg the program.                       *)
(***************************************************************************)
DefaultOpts ==
    [validator |-> [kind |-> "Undefined", accepts |-> "none"], size |-> 0, encoding |-> "utf8"]

\* One decoder call: the decoder, its byteLength / size argument, its options.
DecoderCallOf(op, arg) == [op |-> op, arg |-> arg, opts |-> DefaultOpts]

\* The decoder of call p applied to a stream holding input.
RunDecoder(p, input) ==
    CASE p.op = "readUInt8" -> ReadUInt8(input)
      [] p.op = "readUInt16BE" -> ReadUInt16BE(input)
      [] p.op = "readInt32LE" -> ReadInt32LE(input)
      [] p.op = "readText" -> ReadText(input, p.arg, "utf8")
      [] p.op = "readUInt64BE" -> ReadUInt64BE(input)
      [] p.op = "readUInt64LE" -> ReadUInt64LE(input)
      [] p.op = "readTextUuid" -> ReadTextUuid(input, p.opts)
      [] p.op = "readBinaryUuid" -> ReadBinaryUuid(input)
      [] p.op = "readUIntBE" -> CHOOSE o \in ReadUIntBE(input, p.arg) : TRUE
      [] p.op = "readUIntLE" -> CHOOSE o \in ReadUIntLE(input, p.arg) : TRUE

\* The decoder throws before it calls readBytes.
RejectsEarly(p) ==
    LET o == RunDecoder(p, <<>>) IN o.state = "rejected" /\ o.pulled = 0

\* The size the decoder passes to readBytes.
SizeOf(p) == RunDecoder(p, <<>>).pulled

\* new Error('Invalid byteLength: ' + byteLength), seen by the caller.
InvalidArgument == [NoErr EXCEPT !.kind = "InvalidArgument"]

\* The first call of a program, and the calls that follow it.
FirstCalls ==
    {DecoderCallOf("readUInt8", 0), DecoderCallOf("readUInt16BE", 0),
     DecoderCallOf("readInt32LE", 0), DecoderCallOf("readText", 7),
     DecoderCallOf("readUInt64BE", 0), DecoderCallOf("readUInt64LE", 0),
     DecoderCallOf("readTextUuid", 0),
     [DecoderCallOf("readTextUuid", 0) EXCEPT !.opts.size = 8],
     DecoderCallOf("readBinaryUuid", 0),
     DecoderCallOf("readUIntBE", 2), DecoderCallOf("readUIntLE", 3),
     DecoderCallOf("readUIntBE", 7), DecoderCallOf("readUIntLE", 7)}

LaterCalls == {DecoderCallOf("readUInt8", 0), DecoderCallOf("readText", 2)}

\* 'TESTING 1 2 3'
TESTING_123_BYTES == <<84, 69, 83, 84, 73, 78, 71, 32, 49, 32, 50, 32, 51>>

\* createUInt64BE(ONE_TRILLION)
UINT64BE_ONE_TRILLION == <<0, 0, 0, 232, 212, 165, 16, 0>>

\* What the streams deliver: the tests' text, a counted buffer and a 64-bit
\* number followed by more bytes, ...
ShortContents ==
    {TESTING_123_BYTES,
     [k \in 1..12 |-> k - 1],
     UINT64BE_ONE_TRILLION \o <<5, 6, 7>>}

\* ... and the tests' UUID and the same with a dash replaced, followed by
\* more bytes.
UuidContents ==
    {TEST_UUID \o <<1, 2, 3>>,
     [TEST_UUID EXCEPT ![9] = 48] \o <<1, 2, 3>>}

\* The programs run on a stream: every first call on the short contents, the
\* UUID decoders on the UUID texts.
ProgramsOn(b) ==
    {f \in [CallIds -> FirstCalls \cup LaterCalls] :
        /\ f[1] \in FirstCalls
        /\ \A i \in CallIds : i > 1 => f[i] \in LaterCalls
        /\ b \in UuidContents => f[1].op \in {"readTextUuid", "readBinaryUuid"}}

InitProgram ==
    /\ StreamInit
    /\ \E b \in ShortContents \cup UuidContents :
          \E f \in ProgramsOn(b) :
             dec = [NoDec EXCEPT !.op = "program", !.input = b, !.arg = f]

\* Decoder call i is issued and reaches its readBytes.
DecoderCall(i) ==
    /\ ~RejectsEarly(dec.arg[i])
    /\ ReadBytes(i, SizeOf(dec.arg[i]))

\* Decoder call i is issued and throws before it reads.
DecoderThrow(i) ==
    /\ RejectsEarly(dec.arg[i])
    /\ calls[i].state = "idle"
    /\ \A j \in CallIds : j < i => Settled(j)
    /\ calls' = [calls EXCEPT ![i] = [IdleCall EXCEPT !.state = "rejected",
                                                      !.err = InvalidArgument]]
    /\ UNCHANGED <<buffer, ended, fed, readableDue, errorL, readableL, pulls,
                   errCount, lastErr, dec>>

\* stream.put: the next n bytes of the contents arrive.
Put(n) ==
    /\ ~ended
    /\ Len(fed) + n <= Len(dec.input)
    /\ buffer' = buffer \o SubSeq(dec.input, Len(fed) + 1, Len(fed) + n)
    /\ fed' = fed \o SubSeq(dec.input, Len(fed) + 1, Len(fed) + n)
    /\ readableDue' = TRUE
    /\ UNCHANGED <<ended, errorL, readableL, calls, pulls, errCount, lastErr, dec>>

NextProgram ==
    \/ \E i \in CallIds : DecoderCall(i)
    \/ \E i \in CallIds : DecoderThrow(i)
    \/ \E n \in 1..MaxChunk : Put(n)
    \/ End
    \/ EmitReadable

SpecProgram == InitProgram /\ [][NextProgram]_vars

\* What decoder call i has settled with, as its caller sees it.
Outcome(i) ==
    IF calls[i].state = "resolved" THEN RunDecoder(dec.arg[i], calls[i].block.bytes)
    ELSE IF calls[i].state = "rejected"
    THEN IF calls[i].err = InvalidArgument THEN RunDecoder(dec.arg[i], <<>>)
         ELSE Threw([NoOut EXCEPT !.pulled = calls[i].size], calls[i].err.kind, "")
    ELSE [NoOut EXCEPT !.state = calls[i].state]

\* ------------------------------------------------------- claims C11, C16, C17
\* The number of bytes each decoder is documented to take.
ByteCount(p) ==
    CASE p.op \in {"readUInt8"} -> 1
      [] p.op \in {"readUInt16BE"} -> 2
      [] p.op \in {"readInt32LE"} -> 4
      [] p.op \in {"readUInt64BE", "readUInt64LE"} -> 8
      [] p.op = "readBinaryUuid" -> 16
      [] p.op = "readText" -> p.arg
      [] p.op = "readTextUuid" -> IF p.opts.size = 0 THEN 36 ELSE p.opts.size
      [] p.op \in {"readUIntBE", "readUIntLE"} -> IF p.arg = 7 THEN 0 ELSE p.arg

\* Where call i starts when every call before it took its byte count.
RECURSIVE Start(_)
Start(i) == IF i = 1 THEN 0 ELSE Start(i - 1) + ByteCount(dec.arg[i - 1])

\* The bytes of the contents call i is to decode.
SliceOf(i) == SubSeq(dec.input, Start(i) + 1, Start(i) + ByteCount(dec.arg[i]))

\* Call i has run to the end of its reading: its readBytes resolved, or it
\* threw before reading.
ReadThrough(i) ==
    \/ calls[i].state = "resolved"
    \/ calls[i].state = "rejected" /\ calls[i].err = InvalidArgument

\* No call after i has been issued.
LastIssued(i) == \A j \in CallIds : j > i => calls[j].state = "idle"

\* C11: in a program of decoder calls issued one after the other, a call
\* whose readBytes resolved was handed exactly its byte count, taken where
\* the call before it stopped, and its value is decoded from those bytes; as
\* long as no later call is issued the stream still buffers every byte that
\* arrived after them.
C11_ConsecutiveSlices ==
    \A i \in CallIds :
        ((\A j \in CallIds : j < i => ReadThrough(j)) /\ calls[i].state = "resolved") =>
            LET p == dec.arg[i]
                b == SliceOf(i)
                o == Outcome(i)
            IN  /\ calls[i].size = ByteCount(p)
                /\ calls[i].block.bytes = b
                /\ LastIssued(i) =>
                      buffer = SubSeq(fed, Start(i) + ByteCount(p) + 1, Len(fed))
                /\ p.op = "readUInt8" => (o.state = "resolved" /\ o.num = Num(FALSE, 0, b[1]))
                /\ p.op = "readUInt16BE" =>
                      (o.state = "resolved" /\ o.num = Num(FALSE, 0, 256 * b[1] + b[2]))
                /\ p.op = "readText" =>
                      /\ o.state = "resolved"
                      /\ Len(o.text) = p.arg
                      /\ \A k \in 1..p.arg : b[k] < 128 => o.text[k] = b[k]
                /\ (p.op = "readTextUuid" /\ o.state = "resolved") => o.text = b

\* readText(stream, 7) on 'TESTING 1 2 3' returned 'TESTING' and the
\* readUInt8 after it the byte that follows, the space.
C11_Witness ==
    /\ dec.input = TESTING_123_BYTES
    /\ dec.arg[1] = DecoderCallOf("readText", 7)
    /\ dec.arg[2] = DecoderCallOf("readUInt8", 0)
    /\ calls[2].state = "resolved"
    /\ Outcome(1).text = <<84, 69, 83, 84, 73, 78, 71>>
    /\ Outcome(2).num = Num(FALSE, 0, 32)
    /\ pulls[1] >= 3

\* Call i is readUIntBE(stream, 7) or readUIntLE(stream, 7).
IsSevenByteCall(i) == dec.arg[i].op \in {"readUIntBE", "readUIntLE"} /\ dec.arg[i].arg = 7

\* C16: the step that issues readUIntBE(stream, 7) or readUIntLE(stream, 7)
\* rejects the call as an invalid argument and leaves the stream's buffer,
\* its listener lists and the pull counts as they were; the call never has a
\* listener on the stream, and the read issued after it gets the bytes at
\* the offset the rejected call was issued at.
C16_SevenFailsUntouched ==
    [][\A i \in CallIds :
          /\ (IsSevenByteCall(i) /\ calls[i].state = "idle" /\ calls'[i].state # "idle") =>
                /\ calls'[i].state = "rejected"
                /\ calls'[i].err = InvalidArgument
                /\ calls'[i].block = NoBlock
                /\ buffer' = buffer
                /\ fed' = fed
                /\ errorL' = errorL
                /\ readableL' = readableL
                /\ pulls' = pulls
          /\ (IsSevenByteCall(i) /\ calls'[i].state # "idle") =>
                /\ pulls'[i] = 0
                /\ i \notin Range(errorL')
                /\ i \notin Range(readableL')
                /\ (i < MaxCalls /\ ResolvedUpTo(i - 1)' /\ calls'[i + 1].state = "resolved") =>
                      calls'[i + 1].block.bytes =
                          SubSeq(dec.input, Off(i)' + 1, Off(i)' + calls'[i + 1].size)
      ]_vars

\* readUIntBE(stream, 7) was rejected, and the readText(stream, 2) after it
\* returned the first two bytes of the stream at its first pull.
C16_Witness ==
    /\ dec.arg[1] = DecoderCallOf("readUIntBE", 7)
    /\ dec.arg[2] = DecoderCallOf("readText", 2)
    /\ calls[1].state = "rejected"
    /\ calls[1].err = InvalidArgument
    /\ calls[2].state = "resolved"
    /\ pulls[2] = 1
    /\ calls[2].block.bytes = Take(dec.input, 2)

\* Call i read its block and failed decoding it.
DecodeFailed(i) ==
    /\ calls[i].state = "resolved"
    /\ Outcome(i).state = "rejected"
    /\ Outcome(i).err.kind \in {"ValueOutOfRange", "UuidValidationFailed"}

\* C17: when readUInt64BE / readUInt64LE fails with ValueOutOfRange or
\* readTextUuid fails validation, the call has taken its 8 (or size) bytes
\* from the stream: they are no longer buffered, and the read issued next
\* gets the bytes that follow them.
C17_NoRollback ==
    \A i \in CallIds :
        (calls[i].state = "resolved" /\ ResolvedUpTo(i - 1)
            /\ dec.arg[i].op \in {"readUInt64BE", "readUInt64LE", "readTextUuid"}) =>
            /\ calls[i].size = ByteCount(dec.arg[i])
            /\ DecodeFailed(i) =>
                /\ LastIssued(i) =>
                      buffer = SubSeq(fed, Off(i) + ByteCount(dec.arg[i]) + 1, Len(fed))
                /\ (i < MaxCalls /\ calls[i + 1].state = "resolved") =>
                      calls[i + 1].block.bytes =
                          SubSeq(dec.input, Off(i) + ByteCount(dec.arg[i]) + 1,
                                 Off(i) + ByteCount(dec.arg[i]) + calls[i + 1].size)

\* readTextUuid failed validation on 36 characters that are not a UUID, and
\* the readUInt8 after it returned the 37th byte of the stream.
C17_Witness ==
    /\ dec.arg[1] = DecoderCallOf("readTextUuid", 0)
    /\ dec.arg[2] = DecoderCallOf("readUInt8", 0)
    /\ DecodeFailed(1)
    /\ Outcome(1).err.kind = "UuidValidationFailed"
    /\ calls[2].state = "resolved"
    /\ Outcome(2).num = Num(FALSE, 0, 1)

====
